---------------------------- MODULE Spec2Model ----------------------------
(***************************************************************************)
(* Model of the economy menu of GamestonkTerminal                          *)
(* (gamestonk_terminal/economy/economy_controller.py): the menu() loop,    *)
(* EconomyController.switch and the call_<name> handlers; and of the       *)
(* option charts of gamestonk_terminal/options/yfinance_view.py (PlotSpec).*)
(*                                                                         *)
(* Strings are modelled as sequences of chunks: a chunk is "-", " " or a   *)
(* run of other characters, so that `"-" in s`, `s[0] == "-"`,             *)
(* `"call_" + s`, `" ".join(l)` and `s.split()` are computed and not       *)
(* assumed.  The string "T10Y-2Y" is <<"T10Y", "-", "2Y">>, the empty      *)
(* string is << >>.  An input line is the sequence of its fields, the      *)
(* pieces between single blanks, so that "  " is << <<>>, <<>>, <<>> >>.   *)
(***************************************************************************)
EXTENDS Integers, Sequences, FiniteSets, TLC

\* Bounds of the model
MaxLines == 2
MaxItems == 2

---------------------------------------------------------------------------
\* Strings

EmptyStr == << >>
W(s) == <<s>>
Flag(s) == <<"-", s>>
LongFlag(s) == <<"-", "-", s>>

\* `"-" in s`
ContainsDash(s) == \E i \in 1..Len(s) : s[i] = "-"
\* `s[0] == "-"`, what argparse's prefix_chars test looks at
StartsWithDash(s) == Len(s) > 0 /\ s[1] = "-"
\* `" " in s`
ContainsSpace(s) == \E i \in 1..Len(s) : s[i] = " "

RECURSIVE Join(_)
\* " ".join(l)
Join(l) ==
    IF Len(l) = 0 THEN EmptyStr
    ELSE IF Len(l) = 1 THEN l[1]
    ELSE l[1] \o <<" ">> \o Join(Tail(l))

\* switch() without its test for the empty command
IsEmptyLine_never(line) == FALSE

\* `not an_input`: the line is the empty string
IsEmptyLine(line) == Len(line) = 0 \/ (Len(line) = 1 /\ line[1] = EmptyStr)
\* an_input.split(): the non-empty fields
Split(line) == SelectSeq(line, LAMBDA f : f # EmptyStr)

---------------------------------------------------------------------------
\* The command table, as the class body builds it

d_GROUPS ==
    (W("sector") :> "Sector") @@
    (W("industry") :> "Industry") @@
    (<<"basic", " ", "materials">> :> "Industry (Basic Materials)") @@
    (<<"communication", " ", "services">> :> "Industry (Communication Services)") @@
    (<<"consumer", " ", "cyclical">> :> "Industry (Consumer Cyclical)") @@
    (<<"consumer", " ", "defensive">> :> "Industry (Consumer Defensive)") @@
    (W("energy") :> "Industry (Energy)") @@
    (W("financial") :> "Industry (Financial)") @@
    (W("healthcare") :> "Industry (Healthcare)") @@
    (W("industrials") :> "Industry (Industrials)") @@
    (<<"real", " ", "Estate">> :> "Industry (Real Estate)") @@
    (W("technology") :> "Industry (Technology)") @@
    (W("utilities") :> "Industry (Utilities)") @@
    (W("country") :> "Country (U.S. listed stocks only)") @@
    (W("capitalization") :> "Capitalization")

CHOICES_ADMIN == << W("cls"), W("?"), W("help"), W("q"), W("quit") >>

CHOICES_COMMANDS ==
    << W("feargreed"), W("events"), W("overview"), W("indices"),
       W("futures"), W("usbonds"), W("glbonds"), W("futures"),
       W("currencies"), W("search"), W("series"), W("valuation"),
       W("performance"), W("spectrum"), W("map"), W("rtps"),
       W("industry") >>

CHOICES_MENUS == << W("report") >>

\* CHOICES += CHOICES_COMMANDS; CHOICES += CHOICES_MENUS
CHOICES_INIT == CHOICES_ADMIN \o CHOICES_COMMANDS \o CHOICES_MENUS

Range(f) == { f[i] : i \in DOMAIN f }

\* The call_<name> methods the class defines
Methods ==
    { <<"call_">> \o W(n) : n \in
        { "help", "q", "quit", "events", "feargreed", "overview", "indices",
          "futures", "usbonds", "glbonds", "currencies", "map", "valuation",
          "performance", "spectrum", "rtps", "series", "search", "report" } }


---------------------------------------------------------------------------
\* argparse, as far as the controller uses it

NumeralValue ==
    ("0" :> 0) @@ ("1" :> 1) @@ ("01" :> 1) @@ ("5" :> 5) @@ ("13" :> 13) @@
    ("2020" :> 2020) @@ ("2019" :> 2019)

IsNumeral(c) == c \in DOMAIN NumeralValue

\* argparse's _negative_number_matcher
IsNegativeNumber(s) == Len(s) = 2 /\ s[1] = "-" /\ IsNumeral(s[2])

\* ArgumentParser._parse_optional for a string that is no registered option
\* string: it is taken for an option unless it is empty, does not start
\* with "-", is the single character "-", looks like a negative number
\* (none of these parsers has a negative-number-like option) or holds a blank
LooksOptional(s) ==
    /\ StartsWithDash(s)
    /\ s # <<"-">>
    /\ ~IsNegativeNumber(s)
    /\ ~ContainsSpace(s)

RemoveAt(l, i) == SubSeq(l, 1, i - 1) \o SubSeq(l, i + 1, Len(l))

Positionals(toks) == { i \in 1..Len(toks) : ~LooksOptional(toks[i]) }

FirstPositional(toks) ==
    CHOOSE i \in Positionals(toks) : \A j \in Positionals(toks) : i <= j

\* The parser built without choices=self.CHOICES: any first word is a command
econ_parser_without_choices(choices, toks) ==
    IF Positionals(toks) = {}
    THEN [exit |-> TRUE, cmd |-> EmptyStr, other_args |-> << >>]
    ELSE [exit |-> FALSE, cmd |-> toks[FirstPositional(toks)],
          other_args |-> RemoveAt(toks, FirstPositional(toks))]

\* self.econ_parser.parse_known_args(tokens): one positional "cmd" with
\* choices=self.CHOICES.  exit: argparse's error(), which raises SystemExit
\* when the positional is missing or is not one of the choices.
econ_parser_parse_known_args(choices, toks) ==
    IF Positionals(toks) = {}
    THEN [exit |-> TRUE, cmd |-> EmptyStr, other_args |-> << >>]
    ELSE LET i == FirstPositional(toks) IN
         IF toks[i] \notin Range(choices)
         THEN [exit |-> TRUE, cmd |-> toks[i], other_args |-> << >>]
         ELSE [exit |-> FALSE, cmd |-> toks[i],
               other_args |-> RemoveAt(toks, i)]

\* type=check_positive (helper_funcs): int(value), which must be > 0
check_positive(s) ==
    IF Len(s) = 1 /\ IsNumeral(s[1]) /\ NumeralValue[s[1]] > 0
    THEN [ok |-> TRUE, val |-> NumeralValue[s[1]]]
    ELSE [ok |-> FALSE, val |-> 0]

\* type=valid_date (helper_funcs): datetime.strptime(s, "%Y-%m-%d")
valid_date(s) ==
    IF /\ Len(s) = 5 /\ s[2] = "-" /\ s[4] = "-"
       /\ IsNumeral(s[1]) /\ IsNumeral(s[3]) /\ IsNumeral(s[5])
       /\ NumeralValue[s[1]] >= 1
       /\ NumeralValue[s[3]] \in 1..12
       /\ NumeralValue[s[5]] \in 1..31
    THEN [ok |-> TRUE,
          val |-> [year |-> NumeralValue[s[1]], month |-> NumeralValue[s[3]],
                   day |-> NumeralValue[s[5]]]]
    ELSE [ok |-> FALSE, val |-> [year |-> 0, month |-> 0, day |-> 0]]

Convert(type, s) ==
    CASE type = "check_positive" -> check_positive(s)
      [] type = "valid_date" -> valid_date(s)
      [] OTHER -> [ok |-> TRUE, val |-> s]

\* One add_argument call.  choices = {} with has_choices = FALSE is an
\* argument without choices.
Arg(flags, dest, action, type, has_choices, choices, default, required) ==
    [flags |-> flags, dest |-> dest, action |-> action, type |-> type,
     has_choices |-> has_choices, choices |-> choices, default |-> default,
     required |-> required]

Tabular == { W("csv"), W("json"), W("xlsx") }
Image == { W("png"), W("jpg"), W("pdf"), W("svg") }

ExportArg(choices) ==
    Arg({LongFlag("export")}, "export", "store", "str", TRUE, choices,
        [str |-> TRUE, val |-> EmptyStr], FALSE)

StrDefault(s) == [str |-> TRUE, val |-> s]
ObjDefault(v) == [str |-> FALSE, val |-> v]

\* Python's None where a string is expected; no input string equals it
NoneVal == <<"<None>">>

InSeq(x, l) == \E i \in 1..Len(l) : l[i] = x

HelpFlags == { Flag("h"), LongFlag("help") }

Dests(parser) == { parser[k].dest : k \in 1..Len(parser) }

ArgOfDest(parser, d) ==
    parser[CHOOSE k \in 1..Len(parser) : parser[k].dest = d]

\* argparse converts a string default with the argument's type
DefaultOf(a) ==
    IF a.default.str THEN Convert(a.type, a.default.val).val
    ELSE a.default.val

Defaults(parser) ==
    [d \in Dests(parser) |-> DefaultOf(ArgOfDest(parser, d))]

Matches(parser, s) == { k \in 1..Len(parser) : s \in parser[k].flags }

RECURSIVE ParseFrom(_, _, _, _)
\* Left-to-right scan of the argument strings.  st.ok = FALSE is a
\* validation failure (argparse's error(): a value that is missing, of the
\* wrong type or not among the choices, or a string no argument takes).
ParseFrom(parser, args, i, st) ==
    IF ~st.ok \/ i > Len(args) THEN st
    ELSE IF args[i] \in HelpFlags
    THEN ParseFrom(parser, args, i + 1, [st EXCEPT !.help = TRUE])
    ELSE IF Matches(parser, args[i]) = {}
    THEN [st EXCEPT !.ok = FALSE]
    ELSE LET a == parser[CHOOSE k \in Matches(parser, args[i]) : TRUE] IN
         IF a.action = "store_true"
         THEN ParseFrom(parser, args, i + 1,
                  [st EXCEPT !.ns[a.dest] = TRUE, !.seen = @ \cup {a.dest}])
         ELSE IF i + 1 > Len(args) \/ LooksOptional(args[i + 1])
                 \/ args[i + 1] \in HelpFlags
         THEN [st EXCEPT !.ok = FALSE]
         ELSE LET c == Convert(a.type, args[i + 1]) IN
              IF ~c.ok \/ (a.has_choices /\ c.val \notin a.choices)
              THEN [st EXCEPT !.ok = FALSE]
              ELSE ParseFrom(parser, args, i + 2,
                       [st EXCEPT !.ns[a.dest] = c.val,
                                  !.seen = @ \cup {a.dest}])

Rejected == [ok |-> FALSE, ns |-> << >>]

\* helper_funcs.parse_known_args_and_warn(parser, other_args): the parsed
\* namespace, or nothing (ok = FALSE) when the arguments are invalid, a
\* required argument is missing or help was asked for.
parse_known_args_and_warn(parser, other_args) ==
    LET st == ParseFrom(parser, other_args, 1,
                  [ok |-> TRUE, ns |-> Defaults(parser), seen |-> {},
                   help |-> FALSE])
        missing == { k \in 1..Len(parser) :
                        parser[k].required /\ parser[k].dest \notin st.seen }
    IN IF ~st.ok \/ missing # {} \/ st.help THEN Rejected
       ELSE [ok |-> TRUE, ns |-> st.ns]

---------------------------------------------------------------------------
\* The parsers the handlers build

events_parser ==
    << Arg({Flag("c"), LongFlag("country")}, "country", "store", "str", TRUE,
           { W("NZ"), W("AU"), W("ERL"), W("CA"), W("EU"), W("US"), W("JP"),
             W("CN"), W("GB"), W("CH") }, StrDefault(W("US")), FALSE),
       Arg({Flag("n"), LongFlag("num")}, "num", "store", "check_positive",
           FALSE, {}, ObjDefault(10), FALSE),
       Arg({Flag("i"), LongFlag("impact")}, "impact", "store", "str", TRUE,
           { W("low"), W("medium"), W("high"), W("all") },
           StrDefault(W("all")), FALSE),
       ExportArg(Tabular) >>

feargreed_parser ==
    << Arg({Flag("i"), LongFlag("indicator")}, "indicator", "store", "str",
           TRUE, { W("jbd"), W("mv"), W("pco"), W("mm"), W("sps"), W("spb"),
                   W("shd"), W("index") }, ObjDefault(NoneVal), FALSE),
       ExportArg(Image) >>

\* overview, indices, futures, usbonds, glbonds, currencies
wsj_parser == << ExportArg(Tabular) >>

map_parser ==
    << Arg({Flag("p"), LongFlag("period")}, "s_period", "store", "str", TRUE,
           { W("1d"), W("1w"), W("1m"), W("3m"), W("6m"), W("1y") },
           StrDefault(W("1d")), FALSE),
       Arg({Flag("t"), LongFlag("type")}, "s_type", "store", "str", TRUE,
           { W("sp500"), W("world"), W("full"), W("etf") },
           StrDefault(W("sp500")), FALSE) >>

GroupArg(default) ==
    Arg({Flag("g"), LongFlag("group")}, "group", "store", "str", TRUE,
        DOMAIN d_GROUPS, StrDefault(default), FALSE)

valuation_parser == << GroupArg(W("Sector")), ExportArg(Tabular) >>

performance_parser == << GroupArg(W("Sector")), ExportArg(Tabular) >>

spectrum_parser == << GroupArg(W("sector")), ExportArg(Image) >>

RawArg ==
    Arg({LongFlag("raw")}, "raw", "store_true", "str", FALSE, {},
        ObjDefault(FALSE), FALSE)

\* --export with the choices of a chart whatever the other arguments are
RawExportChoices_image(other_args) == Image

\* choices=["csv", "json", "xlsx"] if "--raw" in other_args
\*         else ["png", "jpg", "pdf", "svg"]
RawExportChoices(other_args) ==
    IF InSeq(LongFlag("raw"), other_args) THEN Tabular ELSE Image

rtps_parser(other_args) ==
    << RawArg, ExportArg(RawExportChoices(other_args)) >>

series_parser(other_args) ==
    << Arg({Flag("i"), LongFlag("id")}, "series_id", "store", "str", FALSE,
           {}, ObjDefault(NoneVal), ~InSeq(Flag("h"), other_args)),
       Arg({Flag("s")}, "start_date", "store", "valid_date", FALSE, {},
           StrDefault(<<"2019", "-", "01", "-", "01">>), FALSE),
       RawArg,
       ExportArg(RawExportChoices(other_args)) >>

search_parser(other_args) ==
    << Arg({Flag("s"), LongFlag("series")}, "series_term", "store", "str",
           FALSE, {}, ObjDefault(NoneVal), ~InSeq(Flag("h"), other_args)),
       Arg({Flag("n"), LongFlag("num")}, "num", "store", "check_positive",
           FALSE, {}, ObjDefault(5), FALSE) >>

---------------------------------------------------------------------------
\* The handlers.  A handler is given the argument strings and oc, what its
\* collaborator does when called: "ok" (it returns) or "raise" (it raises
\* an Exception).  Its result: the argument strings handed to the validator,
\* the collaborators called, what was printed, the value returned, and
\* whether an exception left the handler.

Outcomes == { "ok", "raise" }

Result(validated, calls, out, ret) ==
    [validated |-> validated, calls |-> calls, out |-> out, ret |-> ret,
     raised |-> FALSE]

\* A collaborator call and what it did
Call(fn, kwargs, result) == [fn |-> fn, kwargs |-> kwargs, result |-> result]

\* The validator was handed args and answered v
Validated(args, v) == << [args |-> args, ok |-> v.ok, ns |-> v.ns] >>

\* ns_parser = parse_known_args_and_warn(parser, other_args)
\* if not ns_parser: return
\* <collaborator>(...)
\* inside `try: ... except Exception as e: print(e, "\n")`
Guarded(args, v, fn, kwargs, oc) ==
    IF ~v.ok THEN Result(Validated(args, v), << >>, <<"diagnostic">>, "None")
    ELSE Result(Validated(args, v), <<Call(fn, kwargs, oc)>>,
                IF oc = "raise" THEN <<"exception">> ELSE << >>, "None")

\* if other_args: if "-" not in other_args[0]: other_args.insert(0, flag)
InsertPrimary(other_args, flag) ==
    IF Len(other_args) > 0 /\ ~ContainsDash(other_args[1])
    THEN <<flag>> \o other_args
    ELSE other_args

\* The same, followed inside `if other_args:` by
\* other_args = [other_args[0], " ".join(other_args[1:])]
InsertPrimaryAndJoin(other_args, flag) ==
    IF Len(other_args) > 0
    THEN LET a == InsertPrimary(other_args, flag)
         IN << a[1], Join(Tail(a)) >>
    ELSE other_args

call_help(other_args) == Result(<< >>, << >>, <<"help_text">>, "None")

\* call_q with the return value of call_quit
call_q_returns_true(other_args) == Result(<< >>, << >>, << >>, "True")

call_q(other_args) == Result(<< >>, << >>, << >>, "False")

call_quit(other_args) == Result(<< >>, << >>, << >>, "True")

\* call_events without `if not ns_parser: return`: the collaborator is called
\* with the defaults when the validator has rejected the arguments
call_events_unguarded(other_args, oc) ==
    LET args == InsertPrimary(other_args, Flag("c"))
        v == parse_known_args_and_warn(events_parser, args)
        ns == IF v.ok THEN v.ns ELSE Defaults(events_parser)
    IN Result(Validated(args, v),
              <<Call("finnhub_view.economy_calendar_events",
                     [country |-> ns.country, num |-> ns.num,
                      impact |-> ns.impact, export |-> ns.export], oc)>>,
              IF oc = "raise" THEN <<"exception">> ELSE << >>, "None")

call_events(other_args, oc) ==
    LET args == InsertPrimary(other_args, Flag("c"))
        v == parse_known_args_and_warn(events_parser, args)
    IN Guarded(args, v, "finnhub_view.economy_calendar_events",
               [country |-> v.ns.country, num |-> v.ns.num,
                impact |-> v.ns.impact, export |-> v.ns.export], oc)

call_feargreed(other_args, oc) ==
    LET args == InsertPrimary(other_args, Flag("i"))
        v == parse_known_args_and_warn(feargreed_parser, args)
    IN Guarded(args, v, "cnn_view.fear_and_greed_index",
               [indicator |-> v.ns.indicator, export |-> v.ns.export], oc)

\* call_overview, call_indices, call_futures, call_usbonds, call_glbonds,
\* call_currencies: the same body around wsj_view.display_<name>
call_wsj(fn, other_args, oc) ==
    LET v == parse_known_args_and_warn(wsj_parser, other_args)
    IN Guarded(other_args, v, fn, [export |-> v.ns.export], oc)

call_overview(other_args, oc) ==
    call_wsj("wsj_view.display_overview", other_args, oc)

call_indices(other_args, oc) ==
    call_wsj("wsj_view.display_indices", other_args, oc)

call_futures(other_args, oc) ==
    call_wsj("wsj_view.display_futures", other_args, oc)

call_usbonds(other_args, oc) ==
    call_wsj("wsj_view.display_usbonds", other_args, oc)

call_glbonds(other_args, oc) ==
    call_wsj("wsj_view.display_glbonds", other_args, oc)

call_currencies(other_args, oc) ==
    call_wsj("wsj_view.display_currencies", other_args, oc)

call_map(other_args, oc) ==
    LET v == parse_known_args_and_warn(map_parser, other_args)
    IN Guarded(other_args, v, "finviz_view.map_sp500_view",
               [period |-> v.ns.s_period, map_type |-> v.ns.s_type], oc)

\* call_valuation and call_performance: self.d_GROUPS[ns_parser.group] is
\* evaluated before the call and raises KeyError, which the handler's
\* except clause prints, when the group is no key of d_GROUPS
call_group_data(parser, data_type, other_args, oc) ==
    LET args == InsertPrimaryAndJoin(other_args, Flag("g"))
        v == parse_known_args_and_warn(parser, args)
    IN IF v.ok /\ v.ns.group \notin DOMAIN d_GROUPS
       THEN Result(Validated(args, v), << >>, <<"exception">>, "None")
       ELSE Guarded(args, v, "finviz_view.view_group_data",
                    [s_group |-> d_GROUPS[v.ns.group],
                     data_type |-> data_type, export |-> v.ns.export], oc)

call_valuation(other_args, oc) ==
    call_group_data(valuation_parser, "valuation", other_args, oc)

call_performance(other_args, oc) ==
    call_group_data(performance_parser, "performance", other_args, oc)

\* call_spectrum with os.remove outside the try, before the chart is drawn
call_spectrum_removes_first(other_args, oc, oc2) ==
    LET args == InsertPrimaryAndJoin(other_args, Flag("g"))
        v == parse_known_args_and_warn(spectrum_parser, args)
        group == IF v.ok THEN v.ns.group ELSE W("sector")
        remove == Call("os.remove", [path |-> group \o <<".jpg">>], oc2)
    IN IF ~v.ok \/ group \notin DOMAIN d_GROUPS
       THEN Result(Validated(args, v), <<remove>>, <<"diagnostic">>, "None")
       ELSE Result(Validated(args, v),
                   << remove,
                      Call("finviz_view.view_group_data",
                           [s_group |-> d_GROUPS[group],
                            data_type |-> "spectrum", export |-> EmptyStr],
                           oc) >>,
                   IF oc = "raise" THEN <<"exception">> ELSE << >>, "None")

\* oc2: what os.remove does when called
call_spectrum(other_args, oc, oc2) ==
    LET args == InsertPrimaryAndJoin(other_args, Flag("g"))
        v == parse_known_args_and_warn(spectrum_parser, args)
    IN IF ~v.ok
       THEN Result(Validated(args, v), << >>, <<"diagnostic">>, "None")
       ELSE IF v.ns.group \notin DOMAIN d_GROUPS
       THEN Result(Validated(args, v), << >>, <<"exception">>, "None")
       ELSE LET view == Call("finviz_view.view_group_data",
                             [s_group |-> d_GROUPS[v.ns.group],
                              data_type |-> "spectrum", export |-> EmptyStr],
                             oc)
                remove == Call("os.remove",
                               [path |-> v.ns.group \o <<".jpg">>], oc2)
            IN IF oc = "raise"
               THEN Result(Validated(args, v), <<view>>, <<"exception">>,
                           "None")
               ELSE Result(Validated(args, v), <<view, remove>>,
                           IF oc2 = "raise" THEN <<"exception">> ELSE << >>,
                           "None")

call_rtps(other_args, oc) ==
    LET v == parse_known_args_and_warn(rtps_parser(other_args), other_args)
    IN Guarded(other_args, v, "alphavantage_view.realtime_performance_sector",
               [raw |-> v.ns.raw, export |-> v.ns.export], oc)

call_series(other_args, oc) ==
    LET args == InsertPrimary(other_args, Flag("i"))
        v == parse_known_args_and_warn(series_parser(other_args), args)
    IN Guarded(args, v, "fred_view.display_series",
               [series |-> v.ns.series_id, start_date |-> v.ns.start_date,
                raw |-> v.ns.raw, export |-> v.ns.export], oc)

call_search(other_args, oc) ==
    LET args == InsertPrimary(other_args, Flag("s"))
        v == parse_known_args_and_warn(search_parser(other_args), args)
    IN Guarded(args, v, "fred_view.notes",
               [series_term |-> v.ns.series_term, num |-> v.ns.num], oc)

\* What report_controller.menu() does: it returns False, True or another
\* value (None), or it raises
ReportOutcomes == { "False", "True", "None", "raise" }

\* call_report that propagates only True and redisplays the help otherwise
call_report_true_only(other_args, roc) ==
    LET menu_call == Call("report_controller.menu", << >>, roc) IN
    IF roc = "raise"
    THEN [validated |-> << >>, calls |-> <<menu_call>>, out |-> << >>,
          ret |-> "None", raised |-> TRUE]
    ELSE IF roc = "True"
    THEN Result(<< >>, <<menu_call>>, << >>, "True")
    ELSE Result(<< >>, <<menu_call>>, <<"help_text">>, "None")

\* ret = report_controller.menu()
\* if ret is False: self.print_help() else: return True
\* with no try around it
call_report(other_args, roc) ==
    LET menu_call == Call("report_controller.menu", << >>, roc) IN
    IF roc = "raise"
    THEN [validated |-> << >>, calls |-> <<menu_call>>, out |-> << >>,
          ret |-> "None", raised |-> TRUE]
    ELSE IF roc = "False"
    THEN Result(<< >>, <<menu_call>>, <<"help_text">>, "None")
    ELSE Result(<< >>, <<menu_call>>, << >>, "True")

---------------------------------------------------------------------------
\* The input lines the model feeds to the prompt

Concats(ps, items) == { p \o it : p \in ps, it \in items }

RECURSIVE ItemSeqs(_, _)
\* The argument lists made of at most n items
ItemSeqs(items, n) ==
    IF n = 0 THEN { << >> }
    ELSE ItemSeqs(items, n - 1) \cup Concats(ItemSeqs(items, n - 1), items)

UnknownFlag == Flag("z")

CommonItems == { <<W("foo")>>, <<UnknownFlag>> }

ExportValues == Tabular \cup Image \cup { W("txt") }

ExportItems == { <<LongFlag("export"), x>> : x \in ExportValues }

Items(c) ==
    CASE c = W("events") ->
            { <<W("EU")>>, <<Flag("c"), W("EU")>>, <<Flag("c"), W("XX")>>,
              <<Flag("n"), W("5")>>, <<Flag("n"), W("x")>>,
              <<Flag("i"), W("high")>>, <<LongFlag("export"), W("csv")>>,
              <<UnknownFlag>>,
              <<Flag("c"), W("US"), Flag("n"), W("5"), Flag("i"), W("high")>> }
      [] c = W("feargreed") ->
            { <<W("mv")>>, <<W("zz")>>, <<Flag("i"), W("mv")>>,
              <<LongFlag("export"), W("png")>>,
              <<LongFlag("export"), W("csv")>>, <<UnknownFlag>> }
      [] c = W("map") ->
            { <<Flag("p"), W("1w")>>, <<Flag("p"), W("2w")>>,
              <<Flag("t"), W("world")>>, <<UnknownFlag>> }
      [] c \in { W("valuation"), W("performance"), W("spectrum") } ->
            { <<W("sector")>>, <<W("basic")>>, <<W("materials")>>,
              <<Flag("g"), W("sector")>>, <<Flag("g")>>,
              <<LongFlag("export"), W("csv")>>,
              <<LongFlag("export"), W("png")>>,
              <<Flag("g"), W("sector"), LongFlag("export"), W("csv")>> }
      [] c = W("rtps") ->
            { <<LongFlag("raw")>>, <<LongFlag("export")>>, <<UnknownFlag>> }
            \cup ExportItems
      [] c = W("series") ->
            { <<W("GDP")>>, <<<<"T10Y", "-", "2Y">>>>,
              <<Flag("i"), W("GDP")>>,
              <<Flag("s"), <<"2020", "-", "13", "-", "01">>>>,
              <<LongFlag("raw")>>, <<Flag("h")>>,
              <<Flag("i"), W("GDP"), LongFlag("raw")>>,
              <<LongFlag("raw"), Flag("i"), W("GDP")>>,
              <<Flag("i"), W("GDP"), Flag("s"),
                <<"2020", "-", "01", "-", "01">>>> }
            \cup ExportItems
      [] c = W("search") ->
            { <<W("gdp")>>, <<<<"T10Y", "-", "2Y">>>>,
              <<Flag("s"), W("gdp")>>, <<Flag("n"), W("5")>>,
              <<Flag("n"), W("0")>>, <<Flag("n"), Flag("5")>>, <<Flag("h")>> }
      [] c \in { W("overview"), W("indices"), W("futures"), W("usbonds"),
                 W("glbonds"), W("currencies") } ->
            { <<LongFlag("export"), W("csv")>>,
              <<LongFlag("export"), W("png")>>, <<UnknownFlag>> }
      [] OTHER -> CommonItems

\* First words: every registered name and some that are not registered
FirstWords == Range(CHOICES_INIT) \cup { W("bogus"), W("QUIT"), <<"-">> }

\* What may precede the first word: nothing, a blank, an option-like string,
\* a negative number
Prefixes == { << >>, <<EmptyStr>>, <<LongFlag("foo")>>, <<Flag("1")>> }

\* The lines built around the first word c
LinesAround ==
    [c \in FirstWords |->
        { <<c>> \o a : a \in ItemSeqs(Items(c), MaxItems) } \cup
        { p \o <<c>> \o a : p \in Prefixes, a \in ItemSeqs(CommonItems, 1) }]

\* The lines without a word
NoWordLines ==
    { << >>, <<EmptyStr, EmptyStr>>, <<EmptyStr, EmptyStr, EmptyStr>>,
      <<UnknownFlag>> }

Lines == NoWordLines \cup UNION { LinesAround[c] : c \in FirstWords }

\* The first string of the line that argparse takes for a positional
FirstWordOf(line) ==
    LET toks == Split(line)
    IN IF Positionals(toks) = {} THEN NoneVal
       ELSE toks[FirstPositional(toks)]

---------------------------------------------------------------------------
\* options/yfinance_view.py: plot_oi, plot_vol, plot_volume_open_interest.
\*
\* Prices, strikes and quantities are integers.  The current prices are
\* multiples of 4, so that 0.75 * current_price and 1.25 * current_price
\* are the integers (3 * p) \div 4 and (5 * p) \div 4.  The collaborators
\* (yfinance_model, export_data, yf.Ticker, op_helpers, matplotlib, seaborn)
\* return; what a function does is the sequence of its calls to them, each
\* <<name, arguments that matter>>, and the exception that leaves it.

MaxRows == 2

Strikes == { 90, 110 }

\* <<openInterest, volume>> of a row of the chain
Activity == { <<1, 0>>, <<2, 1>> }

ChainRows ==
    { [strike |-> s, openInterest |-> a[1], volume |-> a[2]] :
        s \in Strikes, a \in Activity }

\* options.calls, options.puts: tables of at least one row
ChainTables == UNION { [1..n -> ChainRows] : n \in 1..MaxRows }

\* What yfinance_model.get_option_chain returns
OptionChains == [calls : ChainTables, puts : ChainTables]

\* float(yf.Ticker(ticker).info["regularMarketPrice"])
Prices == { 100 }

\* The values given for min_sp, max_sp and min_vol; -1 stands for "not given"
StrikeArgs == { -1, 100 }

VolumeArgs == { -1, 0, 2 }

Abs(x) == IF x < 0 THEN -x ELSE x

Max2(a, b) == IF a >= b THEN a ELSE b

RECURSIVE SortAsc(_)
\* The numbers of the set S in increasing order
SortAsc(S) ==
    IF S = {} THEN << >>
    ELSE LET m == CHOOSE x \in S : \A y \in S : x <= y
         IN <<m>> \o SortAsc(S \ {m})

RECURSIVE SumAt(_, _, _)
\* aggfunc="sum": the sum of the column col over the rows with strike s
SumAt(t, s, col) ==
    IF t = << >> THEN 0
    ELSE (IF Head(t).strike = s THEN Head(t)[col] ELSE 0)
         + SumAt(Tail(t), s, col)

\* t.pivot_table(index="strike", values=["volume", "openInterest"],
\*               aggfunc="sum"): one row per strike, in increasing order
pivot_table(t) ==
    LET ss == SortAsc({ t[i].strike : i \in DOMAIN t })
    IN [i \in 1..Len(ss) |->
           [strike |-> ss[i],
            openInterest |-> SumAt(t, ss[i], "openInterest"),
            volume |-> SumAt(t, ss[i], "volume")]]

\* df_calls as lines 259-267 build it; oi_v is the column "oi+v"
calls_frame(calls, current_price) ==
    LET t == pivot_table(calls)
    IN [i \in 1..Len(t) |->
           [strike |-> t[i].strike, type |-> "calls",
            openInterest |-> t[i].openInterest, volume |-> t[i].volume,
            oi_v |-> t[i].openInterest + t[i].volume,
            spot |-> current_price]]

\* df_puts as lines 269-278 build it: volume and openInterest negated
puts_frame(puts, current_price) ==
    LET t == pivot_table(puts)
    IN [i \in 1..Len(t) |->
           [strike |-> t[i].strike, type |-> "puts",
            openInterest |-> -t[i].openInterest, volume |-> -t[i].volume,
            oi_v |-> (-t[i].openInterest) + (-t[i].volume),
            spot |-> current_price]]

\* df["oi+v"]
Column(df) == [i \in 1..Len(df) |-> df[i].oi_v]

RECURSIVE SeriesMax(_)
\* max(series) of Python, on a series that is not empty
SeriesMax(v) ==
    IF Len(v) = 1 THEN v[1] ELSE Max2(v[1], SeriesMax(Tail(v)))

RECURSIVE SortedValues(_)
\* The values of v in increasing order
SortedValues(v) ==
    IF v = << >> THEN << >>
    ELSE LET m == SeriesMax(v)
             i == CHOOSE k \in 1..Len(v) : v[k] = m
         IN SortedValues(SubSeq(v, 1, i - 1) \o SubSeq(v, i + 1, Len(v))) \o <<m>>

\* Twice np.percentile(v, 50): the value at the middle of the sorted v, or
\* the mean of the two values around it (linear interpolation)
percentile50_twice(v) ==
    LET sv == SortedValues(v)
        n == Len(sv)
    IN sv[((n - 1) \div 2) + 1] + sv[(n \div 2) + 1]

\* Lines 290-310: the rows of df_calls that are kept
filter_calls(df, min_sp, max_sp, min_vol) ==
    IF min_vol = -1 /\ min_sp = -1 /\ max_sp = -1
    THEN SelectSeq(df, LAMBDA r : 2 * r.oi_v > percentile50_twice(Column(df)))
    ELSE LET a == IF min_vol > -1 THEN SelectSeq(df, LAMBDA r : r.oi_v > min_vol) ELSE df
             b == IF min_sp > -1 THEN SelectSeq(a, LAMBDA r : r.strike > min_sp) ELSE a
         IN IF max_sp > -1 THEN SelectSeq(b, LAMBDA r : r.strike < max_sp) ELSE b

\* Lines 290-310: the rows of df_puts that are kept
filter_puts(df, min_sp, max_sp, min_vol) ==
    IF min_vol = -1 /\ min_sp = -1 /\ max_sp = -1
    THEN SelectSeq(df, LAMBDA r : 2 * r.oi_v < percentile50_twice(Column(df)))
    ELSE LET a == IF min_vol > -1 THEN SelectSeq(df, LAMBDA r : r.oi_v < -min_vol) ELSE df
             b == IF min_sp > -1 THEN SelectSeq(a, LAMBDA r : r.strike > min_sp) ELSE a
         IN IF max_sp > -1 THEN SelectSeq(b, LAMBDA r : r.strike < max_sp) ELSE b

\* if min_sp == -1: min_strike = 0.75 * current_price else: min_strike = min_sp
min_strike(min_sp, current_price) ==
    IF min_sp = -1 THEN (3 * current_price) \div 4 ELSE min_sp

\* if max_sp == -1: max_strike = 1.25 * current_price else: max_strike = max_sp
max_strike(max_sp, current_price) ==
    IF max_sp = -1 THEN (5 * current_price) \div 4 ELSE max_sp

BothFlags == "Both flags selected, please select one"

TooStrong ==
    "The filtering applied is too strong, there is no data available for such conditions."

\* What a plotting function did
Plotted(fx, df_c, df_p, err) ==
    [effects |-> fx, df_calls |-> df_c, df_puts |-> df_p, error |-> err]

\* if gtff.USE_ION: plt.ion()
Ion(USE_ION) == IF USE_ION THEN << <<"plt.ion">> >> ELSE << >>

\* Lines 47-56, 153-162, 247-256: the chain is fetched and exported, the
\* current price is looked up
Fetch(name) ==
    << <<"yfinance_model.get_option_chain">>, <<"export_data", name>>,
       <<"yf.Ticker.info">> >>

\* plot_oi with the test of the two flags after the figure is created
plot_oi_shows_empty_figure(min_sp, max_sp, calls_only, puts_only, current_price, USE_ION, max_pain) ==
    Plotted(Fetch("oi_yf") \o
            << <<"op_helpers.calculate_max_pain">>,
               <<"plt.style.use", "classic">>, <<"plt.subplots">> >> \o
            (IF calls_only /\ puts_only THEN << <<"print", BothFlags>> >>
             ELSE << <<"plt.show">> >>) \o
            << <<"plt.style.use", "default">> >>,
            << >>, << >>, "none")

plot_oi(min_sp, max_sp, calls_only, puts_only, current_price, USE_ION, max_pain) ==
    IF calls_only /\ puts_only
    THEN Plotted(Fetch("oi_yf") \o << <<"print", BothFlags>> >>,
                 << >>, << >>, "none")
    ELSE Plotted(
            Fetch("oi_yf") \o
            << <<"op_helpers.calculate_max_pain">>,
               <<"plt.style.use", "classic">>, <<"plt.subplots">> >> \o
            (IF ~calls_only
             THEN << <<"plot", "Puts", "openInterest">> >> ELSE << >>) \o
            (IF ~puts_only
             THEN << <<"plot", "Calls", "openInterest">>,
                     <<"ax.axvline", "Current Price", current_price>>,
                     <<"ax.axvline", "Max Pain", max_pain>>,
                     <<"ax.grid">>,
                     <<"ax.set_xlabel", "Strike Price">>,
                     <<"ax.set_ylabel", "Open Interest (1k) ">>,
                     <<"ax.set_xlim", min_strike(min_sp, current_price),
                       max_strike(max_sp, current_price)>> >> \o
                  Ion(USE_ION) \o
                  << <<"ax.set_title", "Open Interest">>, <<"plt.legend">>,
                     <<"fig.tight_layout">> >>
             ELSE << >>) \o
            << <<"plt.show">>, <<"plt.style.use", "default">>,
               <<"print", "">> >>,
            << >>, << >>, "none")

plot_vol(min_sp, max_sp, calls_only, puts_only, current_price, USE_ION) ==
    IF calls_only /\ puts_only
    THEN Plotted(Fetch("vol_yf") \o << <<"print", BothFlags>> >>,
                 << >>, << >>, "none")
    ELSE Plotted(
            Fetch("vol_yf") \o
            << <<"plt.style.use", "classic">>, <<"plt.subplots">> >> \o
            (IF ~calls_only
             THEN << <<"plot", "Puts", "volume">> >> ELSE << >>) \o
            (IF ~puts_only
             THEN << <<"plot", "Calls", "volume">> >> ELSE << >>) \o
            << <<"ax.axvline", "Current Price", current_price>>,
               <<"ax.grid">>,
               <<"ax.set_xlabel", "Strike Price">>,
               <<"ax.set_ylabel", "Volume (1k) ">>,
               <<"ax.set_xlim", min_strike(min_sp, current_price),
                 max_strike(max_sp, current_price)>> >> \o
            Ion(USE_ION) \o
            << <<"ax.set_title", "Volume">>, <<"plt.legend">>,
               <<"fig.tight_layout">>, <<"plt.show">>,
               <<"plt.style.use", "default">>, <<"print", "">> >>,
            << >>, << >>, "none")

\* max(df_puts["oi+v"]) and max(df_calls["oi+v"]) of line 322 raise
\* ValueError on a table without rows
plot_volume_open_interest(chain, min_sp, max_sp, min_vol, current_price, USE_ION) ==
    LET df_c == filter_calls(calls_frame(chain.calls, current_price),
                             min_sp, max_sp, min_vol)
        df_p == filter_puts(puts_frame(chain.puts, current_price),
                            min_sp, max_sp, min_vol)
        before == Fetch("voi_yf") \o << <<"op_helpers.calculate_max_pain">> >>
    IN IF df_c = << >> /\ df_p = << >>
       THEN Plotted(before \o << <<"print", TooStrong>> >>, df_c, df_p, "none")
       ELSE IF df_c = << >> \/ df_p = << >>
       THEN Plotted(before \o << <<"plt.subplots">> >>, df_c, df_p,
                    "ValueError")
       ELSE LET axis_origin == Max2(Abs(SeriesMax(Column(df_p))),
                                    Abs(SeriesMax(Column(df_c))))
            IN Plotted(
                 before \o
                 << <<"plt.subplots">>,
                    <<"ax.set_xlim", -axis_origin, axis_origin>>,
                    <<"sns.set_style", "darkgrid">>,
                    <<"sns.barplot", "Calls: Open Interest">>,
                    <<"sns.barplot", "Calls: Volume">>,
                    <<"sns.barplot", "Puts: Open Interest">>,
                    <<"sns.barplot", "Puts: Volume">>,
                    <<"ax.axhline", "spot">>,
                    <<"ax.axhline", "max pain">>,
                    <<"g.set_xticklabels">>,
                    <<"plt.title">>,
                    <<"ax.invert_yaxis">>,
                    <<"plt.legend">>,
                    <<"sns.despine">> >> \o
                 Ion(USE_ION) \o
                 << <<"plt.show">>, <<"plt.style.use", "default">> >>,
                 df_c, df_p, "none")

VARIABLES
    plot_fn,        \* the plotting function that was called, or "none"
    plot_args,      \* what it was given and what its environment held
    effects,        \* its calls to the collaborators, in order
    df_calls,       \* df_calls and df_puts after the filtering
    df_puts,
    error           \* the exception that left it, or "none"

plot_vars == <<plot_fn, plot_args, effects, df_calls, df_puts, error>>

NoArgs ==
    [min_sp |-> -1, max_sp |-> -1, min_vol |-> -1, calls_only |-> FALSE,
     puts_only |-> FALSE, current_price |-> 0, USE_ION |-> FALSE,
     max_pain |-> 0]

\* No plotting function has been called
PlotIdle ==
    /\ plot_fn = "none"
    /\ plot_args = NoArgs
    /\ effects = << >>
    /\ df_calls = << >>
    /\ df_puts = << >>
    /\ error = "none"

---------------------------------------------------------------------------
\* The menu loop

VARIABLES
    pc,             \* where menu() is: "prompt", "looping" (the iteration is
                    \* over and the loop goes on), "returned", "raised"
    nread,          \* number of lines read so far
    CHOICES,        \* EconomyController.CHOICES
    an_input,       \* the line of this iteration
    lookup,         \* whether econ_parser.parse_known_args was called
    cmd,            \* known_args.cmd
    handler,        \* what the line was dispatched to
    validated,      \* the argument lists handed to the validator
    calls,          \* the collaborators called, in order
    out,            \* what was printed
    process_input,  \* what switch() returned: "None", "False", "True"
    exc,            \* the exception that left switch(), or "none"
    ret             \* what menu() returned

iter_vars ==
    <<an_input, lookup, cmd, handler, validated, calls, out, process_input,
      exc>>

vars == <<pc, nread, CHOICES, iter_vars, ret, plot_vars>>

NoLine == <<NoneVal>>
InlineHelp == <<"print_help">>
InlineCls == <<"os.system">>
Fallback == <<"<lambda>">>

\* getattr(self, "call_" + known_args.cmd, lambda: "Command not recognized!")
Target(c) ==
    LET name == <<"call_">> \o c
    IN IF name \in Methods THEN name ELSE Fallback

Parsed(line) == econ_parser_parse_known_args(CHOICES, Split(line))

Fresh ==
    /\ an_input = NoLine
    /\ lookup = FALSE
    /\ cmd = NoneVal
    /\ handler = NoneVal
    /\ validated = << >>
    /\ calls = << >>
    /\ out = << >>
    /\ process_input = "unset"
    /\ exc = "none"

Init ==
    /\ pc = "prompt"
    /\ nread = 0
    /\ CHOICES = CHOICES_INIT
    /\ Fresh
    /\ ret = "unset"
    /\ PlotIdle

\* menu() is at the prompt and reads a line
CanRead == pc = "prompt" /\ nread < MaxLines

\* An iteration that takes the dispatched name out of the table
Iterate_consuming(line, lk, c, h, r, e) ==
    /\ nread' = nread + 1
    /\ an_input' = line
    /\ lookup' = lk
    /\ cmd' = c
    /\ handler' = h
    /\ validated' = r.validated
    /\ calls' = r.calls
    /\ exc' = e
    /\ out' = IF e = "SystemExit"
              THEN r.out \o <<"The command selected doesn't exist">>
              ELSE r.out
    /\ process_input' = IF e = "none" THEN r.ret ELSE "unset"
    /\ pc' = IF e \notin { "none", "SystemExit" } THEN "raised"
             ELSE IF e = "none" /\ r.ret # "None" THEN "returned"
             ELSE "looping"
    /\ ret' = IF e = "none" /\ r.ret # "None" THEN r.ret ELSE ret
    /\ CHOICES' = SelectSeq(CHOICES, LAMBDA n : n # c)
    /\ UNCHANGED plot_vars

\* One iteration of `while True` on the line read: what switch() did, and
\* lines 816-824 of menu() on its result.  SystemExit is caught and
\* reported, any other exception leaves menu().
Iterate(line, lk, c, h, r, e) ==
    /\ nread' = nread + 1
    /\ an_input' = line
    /\ lookup' = lk
    /\ cmd' = c
    /\ handler' = h
    /\ validated' = r.validated
    /\ calls' = r.calls
    /\ exc' = e
    /\ out' = IF e = "SystemExit"
              THEN r.out \o <<"The command selected doesn't exist">>
              ELSE r.out
    /\ process_input' = IF e = "none" THEN r.ret ELSE "unset"
    /\ pc' = IF e \notin { "none", "SystemExit" } THEN "raised"
             ELSE IF e = "none" /\ r.ret # "None" THEN "returned"
             ELSE "looping"
    /\ ret' = IF e = "none" /\ r.ret # "None" THEN r.ret ELSE ret
    /\ UNCHANGED <<CHOICES, plot_vars>>

\* if not an_input: print(""); return None
switch_empty ==
    /\ CanRead
    /\ \E line \in Lines :
        /\ IsEmptyLine(line)
        /\ Iterate(line, FALSE, NoneVal, NoneVal,
                   Result(<< >>, << >>, <<"">>, "None"), "none")

\* parse_known_args exits: no first word, or one that is not in CHOICES
switch_exit ==
    /\ CanRead
    /\ \E line \in Lines :
        /\ ~IsEmptyLine(line)
        /\ Parsed(line).exit
        /\ Iterate(line, TRUE, NoneVal, NoneVal,
                   Result(<< >>, << >>, <<"usage">>, "None"), "SystemExit")

\* if known_args.cmd == "?": self.print_help(); return None
switch_help ==
    /\ CanRead
    /\ \E line \in LinesAround[W("?")] :
        LET p == Parsed(line) IN
        /\ ~p.exit
        /\ p.cmd = W("?")
        /\ Iterate(line, TRUE, p.cmd, InlineHelp,
                   Result(<< >>, << >>, <<"help_text">>, "None"), "none")

\* if known_args.cmd == "cls": os.system("cls||clear"); return None
switch_cls ==
    /\ CanRead
    /\ \E line \in LinesAround[W("cls")] :
        LET p == Parsed(line) IN
        /\ ~p.exit
        /\ p.cmd = W("cls")
        /\ Iterate(line, TRUE, p.cmd, InlineCls,
                   Result(<< >>, <<Call("os.system", << >>, "ok")>>, << >>,
                          "None"),
                   "none")

\* The parsed line reaches getattr
ReachesGetattr(p) == ~p.exit /\ p.cmd \notin { W("?"), W("cls") }

\* getattr finds no method: the default, a lambda without parameters, is
\* called with other_args and raises TypeError
switch_fallback ==
    /\ CanRead
    /\ \E line \in Lines :
        LET p == Parsed(line) IN
        /\ ~IsEmptyLine(line)
        /\ ReachesGetattr(p)
        /\ Target(p.cmd) = Fallback
        /\ Iterate(line, TRUE, p.cmd, Fallback,
                   Result(<< >>, << >>, << >>, "None"), "TypeError")

\* The lines switch() dispatches to the method call_<m>.  They are among
\* the lines built around m: the command of a line is its first word, and
\* no prefix is a registered name.
Dispatched(m) ==
    { line \in LinesAround[W(m)] :
        LET p == Parsed(line)
        IN ReachesGetattr(p) /\ Target(p.cmd) = <<"call_", m>> }

\* A line dispatched to a method: what the method did
Handled(line, r) ==
    Iterate(line, TRUE, Parsed(line).cmd, Target(Parsed(line).cmd), r,
            IF r.raised THEN "Exception" ELSE "none")

menu_help ==
    /\ CanRead
    /\ \E line \in Dispatched("help") :
        Handled(line, call_help(Parsed(line).other_args))

menu_q ==
    /\ CanRead
    /\ \E line \in Dispatched("q") :
        Handled(line, call_q(Parsed(line).other_args))

menu_quit ==
    /\ CanRead
    /\ \E line \in Dispatched("quit") :
        Handled(line, call_quit(Parsed(line).other_args))

menu_events ==
    /\ CanRead
    /\ \E line \in Dispatched("events"), oc \in Outcomes :
        Handled(line, call_events(Parsed(line).other_args, oc))

menu_feargreed ==
    /\ CanRead
    /\ \E line \in Dispatched("feargreed"), oc \in Outcomes :
        Handled(line, call_feargreed(Parsed(line).other_args, oc))

menu_overview ==
    /\ CanRead
    /\ \E line \in Dispatched("overview"), oc \in Outcomes :
        Handled(line, call_overview(Parsed(line).other_args, oc))

menu_indices ==
    /\ CanRead
    /\ \E line \in Dispatched("indices"), oc \in Outcomes :
        Handled(line, call_indices(Parsed(line).other_args, oc))

menu_futures ==
    /\ CanRead
    /\ \E line \in Dispatched("futures"), oc \in Outcomes :
        Handled(line, call_futures(Parsed(line).other_args, oc))

menu_usbonds ==
    /\ CanRead
    /\ \E line \in Dispatched("usbonds"), oc \in Outcomes :
        Handled(line, call_usbonds(Parsed(line).other_args, oc))

menu_glbonds ==
    /\ CanRead
    /\ \E line \in Dispatched("glbonds"), oc \in Outcomes :
        Handled(line, call_glbonds(Parsed(line).other_args, oc))

menu_currencies ==
    /\ CanRead
    /\ \E line \in Dispatched("currencies"), oc \in Outcomes :
        Handled(line, call_currencies(Parsed(line).other_args, oc))

menu_map ==
    /\ CanRead
    /\ \E line \in Dispatched("map"), oc \in Outcomes :
        Handled(line, call_map(Parsed(line).other_args, oc))

menu_valuation ==
    /\ CanRead
    /\ \E line \in Dispatched("valuation"), oc \in Outcomes :
        Handled(line, call_valuation(Parsed(line).other_args, oc))

menu_performance ==
    /\ CanRead
    /\ \E line \in Dispatched("performance"), oc \in Outcomes :
        Handled(line, call_performance(Parsed(line).other_args, oc))

menu_rtps ==
    /\ CanRead
    /\ \E line \in Dispatched("rtps"), oc \in Outcomes :
        Handled(line, call_rtps(Parsed(line).other_args, oc))

menu_series ==
    /\ CanRead
    /\ \E line \in Dispatched("series"), oc \in Outcomes :
        Handled(line, call_series(Parsed(line).other_args, oc))

menu_search ==
    /\ CanRead
    /\ \E line \in Dispatched("search"), oc \in Outcomes :
        Handled(line, call_search(Parsed(line).other_args, oc))

menu_spectrum ==
    /\ CanRead
    /\ \E line \in Dispatched("spectrum"), oc \in Outcomes, oc2 \in Outcomes :
        Handled(line, call_spectrum(Parsed(line).other_args, oc, oc2))

menu_report ==
    /\ CanRead
    /\ \E line \in Dispatched("report"), roc \in ReportOutcomes :
        Handled(line, call_report(Parsed(line).other_args, roc))

\* Back to the top of `while True`: the locals of the iteration are dropped
continue ==
    /\ pc = "looping"
    /\ pc' = "prompt"
    /\ an_input' = NoLine
    /\ lookup' = FALSE
    /\ cmd' = NoneVal
    /\ handler' = NoneVal
    /\ validated' = << >>
    /\ calls' = << >>
    /\ out' = << >>
    /\ process_input' = "unset"
    /\ exc' = "none"
    /\ UNCHANGED <<nread, CHOICES, ret, plot_vars>>

Next ==
    \/ switch_empty
    \/ switch_exit
    \/ switch_help
    \/ switch_cls
    \/ switch_fallback
    \/ menu_help
    \/ menu_q
    \/ menu_quit
    \/ menu_events
    \/ menu_feargreed
    \/ menu_overview
    \/ menu_indices
    \/ menu_futures
    \/ menu_usbonds
    \/ menu_glbonds
    \/ menu_currencies
    \/ menu_map
    \/ menu_valuation
    \/ menu_performance
    \/ menu_rtps
    \/ menu_series
    \/ menu_search
    \/ menu_spectrum
    \/ menu_report
    \/ continue

Spec == Init /\ [][Next]_vars

---------------------------------------------------------------------------
\* The plotting functions, each called once with arguments and an
\* environment (current price, USE_ION, max pain) drawn from the sets above

PlotArgs(min_sp, max_sp, min_vol, calls_only, puts_only, current_price, USE_ION, max_pain) ==
    [min_sp |-> min_sp, max_sp |-> max_sp, min_vol |-> min_vol,
     calls_only |-> calls_only, puts_only |-> puts_only,
     current_price |-> current_price, USE_ION |-> USE_ION,
     max_pain |-> max_pain]

\* The function fn was given a and did r; a function is called when none
\* has been called yet (plot_fn = "none", tested first in each action)
PlotCall(fn, a, r) ==
    /\ plot_fn' = fn
    /\ plot_args' = a
    /\ effects' = r.effects
    /\ df_calls' = r.df_calls
    /\ df_puts' = r.df_puts
    /\ error' = r.error
    /\ UNCHANGED <<pc, nread, CHOICES, iter_vars, ret>>

invoke_plot_oi ==
    /\ plot_fn = "none"
    /\ \E min_sp \in StrikeArgs, max_sp \in StrikeArgs,
          calls_only \in BOOLEAN, puts_only \in BOOLEAN,
          current_price \in Prices, USE_ION \in BOOLEAN,
          max_pain \in Strikes :
        PlotCall("plot_oi",
                 PlotArgs(min_sp, max_sp, -1, calls_only, puts_only,
                          current_price, USE_ION, max_pain),
                 plot_oi(min_sp, max_sp, calls_only, puts_only,
                         current_price, USE_ION, max_pain))

invoke_plot_vol ==
    /\ plot_fn = "none"
    /\ \E min_sp \in StrikeArgs, max_sp \in StrikeArgs,
          calls_only \in BOOLEAN, puts_only \in BOOLEAN,
          current_price \in Prices, USE_ION \in BOOLEAN :
        PlotCall("plot_vol",
                 PlotArgs(min_sp, max_sp, -1, calls_only, puts_only,
                          current_price, USE_ION, 0),
                 plot_vol(min_sp, max_sp, calls_only, puts_only,
                          current_price, USE_ION))

invoke_plot_volume_open_interest ==
    /\ plot_fn = "none"
    /\ \E chain \in OptionChains, min_sp \in StrikeArgs,
          max_sp \in StrikeArgs, min_vol \in VolumeArgs,
          current_price \in Prices, USE_ION \in BOOLEAN :
        PlotCall("plot_volume_open_interest",
                 PlotArgs(min_sp, max_sp, min_vol, FALSE, FALSE,
                          current_price, USE_ION, 0),
                 plot_volume_open_interest(chain, min_sp, max_sp, min_vol,
                                           current_price, USE_ION))

PlotNext ==
    \/ invoke_plot_oi
    \/ invoke_plot_vol
    \/ invoke_plot_volume_open_interest

PlotSpec == Init /\ [][PlotNext]_vars

TypeOK ==
    /\ pc \in { "prompt", "looping", "returned", "raised" }
    /\ nread \in 0..MaxLines
    /\ process_input \in { "unset", "None", "False", "True" }
    /\ exc \in { "none", "SystemExit", "TypeError", "Exception" }
    /\ ret \in { "unset", "False", "True" }

---------------------------------------------------------------------------
\* Properties

CallReport == <<"call_", "report">>

\* C1: the loop ends only on a line whose command is q or quit, or on a
\* report submenu that ended with quit, and menu() then returns False or
\* True; no other line ends the loop or lets an exception leave menu().
C1_OnlyQuitEndsLoop ==
    pc \in { "returned", "raised" } =>
        /\ pc = "returned"
        /\ ret \in { "False", "True" }
        /\ \/ cmd \in { W("q"), W("quit") }
           \/ /\ handler = CallReport
              /\ calls[1].result = "True"

\* C2: every command name registered in CHOICES is resolved by switch() to
\* an existing handler, the inline branch of ? and cls or a call_<name>
\* method, and never to the default of getattr.
C2_RegisteredNamesResolve ==
    (pc # "prompt" /\ lookup /\ cmd \in Range(CHOICES)) =>
        /\ handler \in Methods \cup { InlineHelp, InlineCls }
        /\ handler # Fallback

\* C3 as stated: a line whose first token is no registered command name
\* prints "Command not recognized!", invokes no handler and leaves the loop
\* Active.
C3_NotRecognizedMessage ==
    (/\ pc # "prompt"
     /\ Len(Split(an_input)) > 0
     /\ Split(an_input)[1] \notin Range(CHOICES)) =>
        /\ InSeq("Command not recognized!", out)
        /\ handler = NoneVal
        /\ Len(calls) = 0
        /\ pc = "looping"

\* C3 as amended: a line whose command word, the first string that is not
\* taken for an option, is no registered command name makes argparse exit;
\* menu() prints "The command selected doesn't exist", no handler, validator
\* or collaborator is invoked and the loop stays Active.
C3_UnregisteredStaysActive ==
    (/\ pc # "prompt"
     /\ FirstWordOf(an_input) # NoneVal
     /\ FirstWordOf(an_input) \notin Range(CHOICES)) =>
        /\ InSeq("The command selected doesn't exist", out)
        /\ ~InSeq("Command not recognized!", out)
        /\ handler = NoneVal
        /\ Len(validated) = 0
        /\ Len(calls) = 0
        /\ pc = "looping"
        /\ ret = "unset"

C3_Witness ==
    /\ pc = "looping"
    /\ an_input = <<W("bogus")>>
    /\ exc = "SystemExit"

\* C4: whatever was entered before and whatever follows the command on the
\* line, a line whose command is q makes switch() return False and one
\* whose command is quit makes it return True; menu() returns that value,
\* and takes no further step once it has returned.
C4_QuitDirectives ==
    [][/\ pc # "returned"
       /\ (pc' # "prompt" /\ cmd' = W("q")) =>
              (process_input' = "False" /\ pc' = "returned" /\ ret' = "False")
       /\ (pc' # "prompt" /\ cmd' = W("quit")) =>
              (process_input' = "True" /\ pc' = "returned" /\ ret' = "True")
      ]_vars

C4_Witness ==
    /\ pc = "returned"
    /\ nread >= 2
    /\ cmd = W("q")
    /\ Len(Split(an_input)) > 1
    /\ ret = "False"

\* C5 as stated: report propagates ExitProgram of the nested menu (returns
\* True); when the nested menu ends in ExitMenu or returns any other value
\* the economy menu prints its help again and stays Active.
C5_ReportOtherValuesStay ==
    (pc # "prompt" /\ handler = CallReport /\ exc = "none") =>
        /\ calls[1].result = "True" => (pc = "returned" /\ ret = "True")
        /\ calls[1].result # "True" =>
               (process_input = "None" /\ pc = "looping"
                /\ out = <<"help_text">>)

\* C5 as amended: when the nested menu returns False (ExitMenu) the economy
\* menu prints its help again and stays Active; when it returns any other
\* value, True (ExitProgram) or a value that is neither, the economy menu
\* ends in ExitProgram (returns True).
C5_ReportOnlyFalseStays ==
    (pc # "prompt" /\ handler = CallReport /\ exc = "none") =>
        /\ calls[1].result = "False" =>
               (process_input = "None" /\ pc = "looping"
                /\ out = <<"help_text">>)
        /\ calls[1].result # "False" =>
               (process_input = "True" /\ pc = "returned" /\ ret = "True")

C5_Witness ==
    /\ handler = CallReport
    /\ calls[1].result = "None"
    /\ pc = "returned"
    /\ ret = "True"

\* C6: the empty line makes switch() return None after printing a blank
\* line: no command lookup, no validator call, no handler and no
\* collaborator, and the loop stays Active.
C6_EmptyLine ==
    (pc # "prompt" /\ an_input = << >>) =>
        /\ process_input = "None"
        /\ out = <<"">>
        /\ ~lookup
        /\ handler = NoneVal
        /\ Len(validated) = 0
        /\ Len(calls) = 0
        /\ pc = "looping"

C6_Witness ==
    /\ pc = "looping"
    /\ an_input = << >>
    /\ nread >= 1
    /\ out = <<"">>

\* C7: in every handler that validates its arguments, when the validator
\* yields no namespace no collaborator is called, the handler returns None
\* and the menu stays Active.
C7_RejectedMeansNoCall ==
    (pc # "prompt" /\ Len(validated) > 0 /\ ~validated[1].ok) =>
        /\ Len(calls) = 0
        /\ process_input = "None"
        /\ exc = "none"
        /\ pc = "looping"

C7_Witness ==
    /\ pc = "looping"
    /\ handler = <<"call_", "events">>
    /\ an_input = <<W("events"), Flag("n"), W("x")>>
    /\ ~validated[1].ok
    /\ Len(calls) = 0

\* C8: every handler, call_report included, catches whatever its
\* collaborator raises: the error is printed, the handler returns None and
\* the menu is Active afterwards.
C8_EveryHandlerCatches ==
    (pc # "prompt" /\ \E i \in 1..Len(calls) : calls[i].result = "raise") =>
        /\ InSeq("exception", out)
        /\ process_input = "None"
        /\ pc = "looping"

PrimaryFlag ==
    (<<"call_", "events">> :> Flag("c")) @@
    (<<"call_", "feargreed">> :> Flag("i")) @@
    (<<"call_", "valuation">> :> Flag("g")) @@
    (<<"call_", "performance">> :> Flag("g")) @@
    (<<"call_", "spectrum">> :> Flag("g")) @@
    (<<"call_", "series">> :> Flag("i")) @@
    (<<"call_", "search">> :> Flag("s"))

IsPrefixOf(a, b) == Len(a) <= Len(b) /\ SubSeq(b, 1, Len(a)) = a

\* C9: in the handlers with a primary flag, a first argument that does not
\* start with "-" is given to the primary flag, also when it holds a "-"
\* further on as T10Y-2Y does; a first argument that starts with "-" gets
\* nothing inserted before it.
C9_PrimaryFlagShorthand ==
    (/\ pc # "prompt"
     /\ handler \in DOMAIN PrimaryFlag
     /\ Len(Parsed(an_input).other_args) > 0) =>
        LET first == Parsed(an_input).other_args[1]
            given == validated[1].args
        IN IF StartsWithDash(first)
           THEN given[1] = first
           ELSE /\ Len(given) >= 2
                /\ given[1] = PrimaryFlag[handler]
                /\ IsPrefixOf(first, given[2])

SeriesExample ==
    << W("series"), Flag("i"), W("GDP"), Flag("s"),
       <<"2020", "-", "01", "-", "01">>, LongFlag("raw") >>

\* The argument lists on which --export alone decides the validation
ExportDecides(h, args) ==
    /\ Len(args) >= 2
    /\ args[Len(args) - 1] = LongFlag("export")
    /\ SubSeq(args, 1, Len(args) - 2) \in
          IF h = <<"call_", "rtps">>
          THEN { << >>, <<LongFlag("raw")>> }
          ELSE { <<Flag("i"), W("GDP")>>,
                 <<Flag("i"), W("GDP"), LongFlag("raw")>>,
                 <<LongFlag("raw"), Flag("i"), W("GDP")>> }

\* C10: series and rtps accept for --export exactly csv, json and xlsx when
\* --raw is among the arguments and exactly png, jpg, pdf and svg when it is
\* not; `series -i GDP -s 2020-01-01 --raw` reaches the series collaborator
\* with series GDP, start date 2020-01-01 and raw set.
C10_ExportFollowsRaw ==
    (/\ pc # "prompt"
     /\ handler \in { <<"call_", "series">>, <<"call_", "rtps">> }) =>
        LET v == validated[1]
            raw == InSeq(<<"-", "-", "raw">>, v.args)
            allowed == IF raw THEN { <<"csv">>, <<"json">>, <<"xlsx">> }
                       ELSE { <<"png">>, <<"jpg">>, <<"pdf">>, <<"svg">> }
        IN /\ v.ok => /\ v.ns.export \in allowed \cup { EmptyStr }
                      /\ v.ns.raw = raw
                      /\ Len(calls) = 1
                      /\ calls[1].kwargs.export = v.ns.export
                      /\ calls[1].kwargs.raw = raw
           /\ ExportDecides(handler, v.args) =>
                  (v.ok <=> v.args[Len(v.args)] \in allowed)
           /\ an_input = SeriesExample =>
                  /\ Len(calls) = 1
                  /\ calls[1].fn = "fred_view.display_series"
                  /\ calls[1].kwargs.series = <<"GDP">>
                  /\ calls[1].kwargs.start_date =
                         [year |-> 2020, month |-> 1, day |-> 1]
                  /\ calls[1].kwargs.raw = TRUE
                  /\ calls[1].kwargs.export = EmptyStr

C10_Witness ==
    /\ pc = "looping"
    /\ handler = <<"call_", "series">>
    /\ validated[1].args =
           <<Flag("i"), W("GDP"), LongFlag("raw"), LongFlag("export"),
             W("xlsx")>>
    /\ Len(calls) = 1
    /\ calls[1].kwargs.raw = TRUE
    /\ calls[1].kwargs.export = W("xlsx")

CallSpectrum == <<"call_", "spectrum">>

Removals == { i \in 1..Len(calls) : calls[i].fn = "os.remove" }

\* C11: spectrum deletes <group>.jpg, named after the parsed group, only
\* after view_group_data has returned; when validation fails or
\* view_group_data raises no deletion is attempted; a deletion that fails
\* is caught and printed, and the menu stays Active.
C11_RemoveAfterView ==
    (pc # "prompt" /\ handler = CallSpectrum) =>
        /\ \A i \in Removals :
              /\ i = 2
              /\ calls[1].fn = "finviz_view.view_group_data"
              /\ calls[1].result = "ok"
              /\ validated[1].ok
              /\ calls[i].kwargs.path = validated[1].ns.group \o <<".jpg">>
        /\ ~validated[1].ok => Removals = {}
        /\ (Len(calls) > 0 /\ calls[1].result = "raise") => Removals = {}
        /\ (Len(calls) > 0 /\ calls[1].result = "ok") => Removals = {2}
        /\ \A i \in Removals : calls[i].result = "raise" =>
              /\ InSeq("exception", out)
              /\ process_input = "None"
              /\ exc = "none"
              /\ pc = "looping"

C11_Witness ==
    /\ pc = "looping"
    /\ handler = CallSpectrum
    /\ an_input = <<W("spectrum"), W("basic"), W("materials")>>
    /\ Len(calls) = 2
    /\ calls[1].result = "ok"
    /\ calls[2].fn = "os.remove"
    /\ calls[2].kwargs.path = <<"basic", " ", "materials", ".jpg">>
    /\ calls[2].result = "raise"

\* C12: every command name registered in CHOICES occurs in it exactly once,
\* and the table is what the class body built, whatever commands were
\* dispatched since.
C12_UniqueAndImmutable ==
    /\ \A i, j \in DOMAIN CHOICES : CHOICES[i] = CHOICES[j] => i = j
    /\ CHOICES = CHOICES_INIT

\* What the method h does with the arguments a, for each behaviour of its
\* collaborators
HandlerRuns(h, a) ==
    LET m == h[2] IN
    CASE m = "help" -> { call_help(a) }
      [] m = "q" -> { call_q(a) }
      [] m = "quit" -> { call_quit(a) }
      [] m = "events" -> { call_events(a, oc) : oc \in Outcomes }
      [] m = "feargreed" -> { call_feargreed(a, oc) : oc \in Outcomes }
      [] m = "overview" -> { call_overview(a, oc) : oc \in Outcomes }
      [] m = "indices" -> { call_indices(a, oc) : oc \in Outcomes }
      [] m = "futures" -> { call_futures(a, oc) : oc \in Outcomes }
      [] m = "usbonds" -> { call_usbonds(a, oc) : oc \in Outcomes }
      [] m = "glbonds" -> { call_glbonds(a, oc) : oc \in Outcomes }
      [] m = "currencies" -> { call_currencies(a, oc) : oc \in Outcomes }
      [] m = "map" -> { call_map(a, oc) : oc \in Outcomes }
      [] m = "valuation" -> { call_valuation(a, oc) : oc \in Outcomes }
      [] m = "performance" -> { call_performance(a, oc) : oc \in Outcomes }
      [] m = "spectrum" ->
            { call_spectrum(a, oc, oc2) : oc \in Outcomes, oc2 \in Outcomes }
      [] m = "rtps" -> { call_rtps(a, oc) : oc \in Outcomes }
      [] m = "series" -> { call_series(a, oc) : oc \in Outcomes }
      [] m = "search" -> { call_search(a, oc) : oc \in Outcomes }
      [] m = "report" -> { call_report(a, roc) : roc \in ReportOutcomes }

Run(lk, c, h, r, e) == [lk |-> lk, c |-> c, h |-> h, r |-> r, e |-> e]

\* What a controller that has dispatched nothing yet does on the line
FirstRun(line) ==
    IF IsEmptyLine(line)
    THEN { Run(FALSE, NoneVal, NoneVal,
               Result(<< >>, << >>, <<"">>, "None"), "none") }
    ELSE LET p == econ_parser_parse_known_args(CHOICES_INIT, Split(line))
         IN IF p.exit
            THEN { Run(TRUE, NoneVal, NoneVal,
                       Result(<< >>, << >>,
                              <<"usage", "The command selected doesn't exist">>,
                              "None"),
                       "SystemExit") }
            ELSE IF p.cmd = W("?")
            THEN { Run(TRUE, p.cmd, InlineHelp,
                       Result(<< >>, << >>, <<"help_text">>, "None"), "none") }
            ELSE IF p.cmd = W("cls")
            THEN { Run(TRUE, p.cmd, InlineCls,
                       Result(<< >>, <<Call("os.system", << >>, "ok")>>,
                              << >>, "None"),
                       "none") }
            ELSE IF Target(p.cmd) = Fallback
            THEN { Run(TRUE, p.cmd, Fallback,
                       Result(<< >>, << >>, << >>, "None"), "TypeError") }
            ELSE { Run(TRUE, p.cmd, Target(p.cmd), r,
                       IF r.raised THEN "Exception" ELSE "none") :
                     r \in HandlerRuns(Target(p.cmd), p.other_args) }

\* The menu state that follows a run
StateAfter(o) ==
    IF o.e \notin { "none", "SystemExit" } THEN "raised"
    ELSE IF o.e = "none" /\ o.r.ret # "None" THEN "returned"
    ELSE "looping"

CollaboratorResults(cs) == [i \in 1..Len(cs) |-> cs[i].result]

\* C13: what dispatching a line does (the next menu state, the handler,
\* the validator's answer, the collaborators called and their arguments,
\* what is printed and returned) is what a newly constructed controller
\* does on that line, whatever was dispatched before; it is decided by the
\* line and by what the collaborators called do; and no step changes the
\* command table that dispatching reads.
C13_HistoryIndependent ==
    [][/\ CHOICES' = CHOICES
       /\ (pc = "prompt" /\ pc' # "prompt") =>
             /\ \E o \in FirstRun(an_input') :
                   /\ lookup' = o.lk
                   /\ cmd' = o.c
                   /\ handler' = o.h
                   /\ validated' = o.r.validated
                   /\ calls' = o.r.calls
                   /\ out' = o.r.out
                   /\ exc' = o.e
                   /\ process_input' =
                          (IF o.e = "none" THEN o.r.ret ELSE "unset")
                   /\ pc' = StateAfter(o)
             /\ \A o1, o2 \in FirstRun(an_input') :
                   CollaboratorResults(o1.r.calls) =
                       CollaboratorResults(o2.r.calls) => o1 = o2
      ]_vars

C13_Witness ==
    /\ pc = "looping"
    /\ nread = 2
    /\ an_input = <<W("valuation"), W("sector")>>
    /\ Len(calls) = 1
    /\ calls[1].kwargs.s_group = "Sector"
    /\ calls[1].result = "ok"

\* The argument lists that name the group g and the export format f
GroupAndExport(g, f) ==
    { <<Flag("g"), g, LongFlag("export"), f>>,
      <<LongFlag("export"), f, Flag("g"), g>>,
      <<g, LongFlag("export"), f>> }

\* C14: valuation and performance given a group of d_GROUPS and --export
\* with csv, json or xlsx, in either order, pass validation and call
\* view_group_data with s_group = d_GROUPS[group] and export = the format.
C14_GroupWithExport ==
    (/\ pc # "prompt"
     /\ handler \in { <<"call_", "valuation">>, <<"call_", "performance">> }) =>
        \A g \in DOMAIN d_GROUPS, f \in Tabular :
            Parsed(an_input).other_args \in GroupAndExport(g, f) =>
                /\ validated[1].ok
                /\ Len(calls) = 1
                /\ calls[1].fn = "finviz_view.view_group_data"
                /\ calls[1].kwargs.s_group = d_GROUPS[g]
                /\ calls[1].kwargs.export = f

\* C15: valuation, performance and spectrum given no arguments use their
\* default group and call view_group_data with s_group = "Sector"; the
\* group of a validated namespace is always a key of d_GROUPS.
C15_DefaultGroup ==
    (/\ pc # "prompt"
     /\ handler \in { <<"call_", "valuation">>, <<"call_", "performance">>,
                      <<"call_", "spectrum">> }) =>
        /\ validated[1].ok => validated[1].ns.group \in DOMAIN d_GROUPS
        /\ Parsed(an_input).other_args = << >> =>
              /\ validated[1].ok
              /\ Len(calls) >= 1
              /\ calls[1].fn = "finviz_view.view_group_data"
              /\ calls[1].kwargs.s_group = "Sector"

DecorationOps ==
    { "ax.axvline", "ax.set_xlim", "ax.set_xlabel", "ax.set_ylabel",
      "ax.set_title", "plt.legend" }

\* A decoration with what it was given, texts of labels and title left out
Decoration(e) ==
    IF e[1] \in { "ax.axvline", "ax.set_xlim" } THEN e ELSE <<e[1]>>

\* The decorations a chart was given
Decorations(fx) ==
    { Decoration(fx[i]) : i \in { k \in DOMAIN fx : fx[k][1] \in DecorationOps } }

\* C16: whenever plot_oi plots (calls_only and puts_only not both set), its
\* chart is given the decorations plot_vol gives its chart on the same
\* arguments, the current-price line, the strike-axis bounds (min_sp and
\* max_sp, or 0.75 and 1.25 times the current price for -1), the axis
\* labels, the title and the legend, and the max-pain line besides.
C16_SameDecorationsAsVol ==
    (/\ plot_fn = "plot_oi"
     /\ ~(plot_args.calls_only /\ plot_args.puts_only)) =>
        LET a == plot_args
            vol == plot_vol(a.min_sp, a.max_sp, a.calls_only, a.puts_only,
                            a.current_price, a.USE_ION)
        IN /\ Decorations(effects) =
                  Decorations(vol.effects) \cup
                  { <<"ax.axvline", "Max Pain", a.max_pain>> }
           /\ <<"ax.axvline", "Current Price", a.current_price>>
                  \in Decorations(effects)
           /\ <<"ax.set_xlim",
                IF a.min_sp = -1 THEN (3 * a.current_price) \div 4
                ELSE a.min_sp,
                IF a.max_sp = -1 THEN (5 * a.current_price) \div 4
                ELSE a.max_sp>> \in Decorations(effects)
           /\ { <<"ax.set_xlabel">>, <<"ax.set_ylabel">>, <<"ax.set_title">>,
                <<"plt.legend">> } \subseteq Decorations(effects)

Did(e) == \E i \in DOMAIN effects : effects[i] = e

\* C17: when the filtering leaves df_calls and df_puts both empty,
\* plot_volume_open_interest prints that the filtering is too strong and
\* returns without creating a figure; in every other case, one of the two
\* tables empty included, it draws and shows the chart and raises nothing.
C17_RendersUnlessBothEmpty ==
    plot_fn = "plot_volume_open_interest" =>
        IF df_calls = << >> /\ df_puts = << >>
        THEN /\ Did(<<"print", TooStrong>>)
             /\ ~Did(<<"plt.subplots">>)
             /\ error = "none"
        ELSE /\ error = "none"
             /\ Did(<<"plt.subplots">>)
             /\ Did(<<"plt.show">>)

\* The x limits plot_volume_open_interest has set
XLimits ==
    { effects[i] : i \in { k \in DOMAIN effects : effects[k][1] = "ax.set_xlim" } }

\* C18: the x axis of plot_volume_open_interest is symmetric and covers
\* the data: the bound given to set_xlim is at least the absolute value of
\* the oi+v of every row plotted, of the calls, which are not negative,
\* and of the puts, which are not positive.
C18_AxisCoversData ==
    plot_fn = "plot_volume_open_interest" =>
        \A lim \in XLimits :
            /\ lim[2] = -lim[3]
            /\ \A i \in DOMAIN df_calls :
                  df_calls[i].oi_v >= 0 /\ Abs(df_calls[i].oi_v) <= lim[3]
            /\ \A i \in DOMAIN df_puts :
                  df_puts[i].oi_v <= 0 /\ Abs(df_puts[i].oi_v) <= lim[3]

BothFlagsSet ==
    /\ plot_fn \in { "plot_oi", "plot_vol" }
    /\ plot_args.calls_only
    /\ plot_args.puts_only

ExportName == IF plot_fn = "plot_oi" THEN "oi_yf" ELSE "vol_yf"

=============================================================================
